---- MODULE Spec2Model ----
(***************************************************************************)
(* The session store and the request handlers of src/main.py               *)
(* (SessionManager, generate_image, regenerate, update_status,            *)
(* get_session).  Requests are served by threads that share the one       *)
(* SessionManager and the one ImageGenerator; the source takes no lock.   *)
(***************************************************************************)
EXTENDS Integers, Sequences, FiniteSets, TLC

\* Python's None, a missing dict key read with .get(), and JSON null.
None == "<None>"

(***************************************************************************)
(* Bounds of the model.                                                    *)
(***************************************************************************)
\* Worker threads serving requests at the same time.
NumThreads == 2
\* Requests (generate, regenerate, update_status) started in one behaviour.
MaxRequests == 2
\* Reads (get_session) answered in one behaviour.
MaxReads == 1
\* Longest message list of a loaded store probed by get_all_prompts.
LoadMaxLen == 4
\* Longest message list of the first session of a two-session loaded store
\* probed by find_message_prompt.
LoadMaxLen2 == 2
\* Longest message list of the session in the file a restarted server finds.
RestartMaxLen == 2
\* Longest message list of each session when that file holds two.
RestartMaxLen2 == 1

Threads == 1..NumThreads

\* The values uuid.uuid4().hex[:8] is drawn from, for message ids and for
\* session ids.  The source draws at random and never checks for a repeat.
MsgIdSeq == <<"m1", "m2", "m3", "m4", "m5", "m6">>
SessionIdSeq == <<"s1", "s2">>
MsgIds == {MsgIdSeq[i] : i \in 1..Len(MsgIdSeq)}
SessionIds == {SessionIdSeq[i] : i \in 1..Len(SessionIdSeq)}
\* The file names ImageGenerator.generate can return.
ImagePaths == {"generated/f1.png"}

LongPrompt == "a very long founding prompt exceeding thirty characters"
\* Request bodies: the "prompt" value as sent (None: JSON null).
RawPrompts == {None, " ", " a\n", LongPrompt}
Statuses == {None, "like"}

TitleLimit == 30
Separator == ". "
CaptionPrefix == "Image is generated from prompt:\n"
\* The closing message (its leading emoji left out).
BoomText == "Boom! Image is generated, do you want H&C to help you with anything else?"

(***************************************************************************)
(* Strings.                                                                *)
(***************************************************************************)
Whitespace == {" ", "\n", "\t"}

\* str.strip()
RECURSIVE Strip(_)
Strip(s) ==
  IF Len(s) = 0 THEN s
  ELSE IF SubSeq(s, 1, 1) \in Whitespace THEN Strip(SubSeq(s, 2, Len(s)))
  ELSE IF SubSeq(s, Len(s), Len(s)) \in Whitespace
       THEN Strip(SubSeq(s, 1, Len(s) - 1))
  ELSE s

\* Python truthiness of an Optional[str]: None and "" are falsy.
Truthy(v) == v # None /\ v # ""

\* ". ".join(prompts)
RECURSIVE Join(_)
Join(prompts) ==
  IF Len(prompts) = 0 THEN ""
  ELSE IF Len(prompts) = 1 THEN prompts[1]
  ELSE prompts[1] \o Separator \o Join(Tail(prompts))

(***************************************************************************)
(* Messages: the dicts the handlers build.  A key the dict lacks and a key *)
(* holding None read the same through .get(), so both are None here.       *)
(***************************************************************************)
Msg(id, sender, text, image_url, status) ==
  [id |-> id, sender |-> sender, text |-> text, image_url |-> image_url,
   status |-> status]

UserMsg(id, text) == Msg(id, "user", text, None, None)
ImageUrl(image_path) == "/static/" \o image_path
BotImageMsg(id, image_path, text) ==
  Msg(id, "bot", text, ImageUrl(image_path), None)
BoomMsg(id) == Msg(id, "bot", BoomText, None, None)
Caption(prompt) == CaptionPrefix \o prompt

(***************************************************************************)
(* SessionManager.  self.sessions is a dict, kept here in insertion order  *)
(* as a sequence of [id, title, messages] with pairwise distinct ids.      *)
(***************************************************************************)
\* The position of key sid in the dict, 0 when absent.
IndexOf(store, sid) ==
  IF \E k \in 1..Len(store) : store[k].id = sid
  THEN CHOOSE k \in 1..Len(store) : store[k].id = sid
  ELSE 0

Has(store, sid) == IndexOf(store, sid) # 0

\* SessionManager.get
get(store, sid) ==
  IF Has(store, sid) THEN store[IndexOf(store, sid)] ELSE None

\* SessionManager.get_all
get_all(store) ==
  [k \in 1..Len(store) |-> [id |-> store[k].id, title |-> store[k].title]]

\* Title as it would be without the "..." of a cut prompt.
Title_NoEllipsis(prompt) ==
  SubSeq(prompt, 1, IF Len(prompt) < TitleLimit THEN Len(prompt) ELSE TitleLimit)

\* prompt[:30] + ("..." if len(prompt) > 30 else "")
Title(prompt) ==
  SubSeq(prompt, 1, IF Len(prompt) < TitleLimit THEN Len(prompt) ELSE TitleLimit)
    \o (IF Len(prompt) > TitleLimit THEN "..." ELSE "")

\* self.sessions[session_id] = {...}: a dict assignment, which replaces the
\* value of a key already present and keeps that key's position.
DictSet(store, sid, session) ==
  IF Has(store, sid)
  THEN [store EXCEPT ![IndexOf(store, sid)] = session]
  ELSE Append(store, session)

\* SessionManager.create, with session_id the value uuid4 returned.
create(store, session_id, prompt) ==
  DictSet(store, session_id,
          [id |-> session_id, title |-> Title(prompt), messages |-> <<>>])

\* add_message as it would be if it made the session it does not find.
add_message_MakesSession(store, session_id, message) ==
  IF Has(store, session_id)
  THEN [store EXCEPT ![IndexOf(store, session_id)].messages = Append(@, message)]
  ELSE Append(store, [id |-> session_id, title |-> "", messages |-> <<message>>])

\* SessionManager.add_message
add_message(store, session_id, message) ==
  IF Has(store, session_id)
  THEN [store EXCEPT ![IndexOf(store, session_id)].messages = Append(@, message)]
  ELSE store

\* What a lookup returns when it finds nothing (Python None where the found
\* value is a tuple).
Absent == <<>>

\* The first (session, message) position, in dict order then list order, whose
\* message has id message_id: the nested for loops of update_message_status.
RECURSIVE FirstMatch(_, _, _, _)
FirstMatch(store, message_id, k, i) ==
  IF k > Len(store) THEN Absent
  ELSE IF i > Len(store[k].messages) THEN FirstMatch(store, message_id, k + 1, 1)
  ELSE IF store[k].messages[i].id = message_id THEN <<k, i>>
  ELSE FirstMatch(store, message_id, k, i + 1)

\* SessionManager.update_message_status: the bool it returns ...
update_message_status_ok(store, message_id) ==
  FirstMatch(store, message_id, 1, 1) # Absent

\* update_message_status as it would be without the return of line 135: the
\* scan goes on and sets the status of every message with the id.
update_message_status_All(store, message_id, status) ==
  [k \in 1..Len(store) |->
     [store[k] EXCEPT !.messages =
        [i \in 1..Len(store[k].messages) |->
           IF store[k].messages[i].id = message_id
           THEN [store[k].messages[i] EXCEPT !.status = status]
           ELSE store[k].messages[i]]]]

\* ... and the store it leaves.
update_message_status(store, message_id, status) ==
  LET at == FirstMatch(store, message_id, 1, 1) IN
  IF at = Absent THEN store
  ELSE [store EXCEPT ![at[1]].messages[at[2]].status = status]

\* SessionManager.find_message_prompt: <<sid, prompt>> or Absent.
RECURSIVE FindFrom(_, _, _, _)
FindFrom(store, message_id, k, i) ==
  IF k > Len(store) THEN Absent
  ELSE IF i > Len(store[k].messages) THEN FindFrom(store, message_id, k + 1, 1)
  ELSE LET msgs == store[k].messages IN
       IF msgs[i].id = message_id
       THEN IF i > 1 /\ msgs[i - 1].sender = "user"
            THEN <<store[k].id, msgs[i - 1].text>>
            ELSE <<store[k].id, msgs[i].text>>
       ELSE FindFrom(store, message_id, k, i + 1)

\* find_message_prompt as it would be without the look at the message before:
\* the matched message's own text, a bot's caption included.
find_message_prompt_OwnText(store, message_id) ==
  LET at == FirstMatch(store, message_id, 1, 1) IN
  IF at = Absent THEN Absent
  ELSE <<store[at[1]].id, store[at[1]].messages[at[2]].text>>

find_message_prompt(store, message_id) == FindFrom(store, message_id, 1, 1)

\* The list comprehension of get_all_prompts.
RECURSIVE UserPrompts(_)
UserPrompts(msgs) ==
  IF Len(msgs) = 0 THEN <<>>
  ELSE (IF Head(msgs).sender = "user" /\ Truthy(Head(msgs).text)
        THEN <<Head(msgs).text>> ELSE <<>>) \o UserPrompts(Tail(msgs))

\* get_all_prompts as it would be without the "and msg.get("text")" of its
\* filter: empty user texts are joined too.
RECURSIVE UserTexts(_)
UserTexts(msgs) ==
  IF Len(msgs) = 0 THEN <<>>
  ELSE (IF Head(msgs).sender = "user" /\ Head(msgs).text # None
        THEN <<Head(msgs).text>> ELSE <<>>) \o UserTexts(Tail(msgs))

get_all_prompts_KeepEmpty(store, session_id) ==
  IF ~Has(store, session_id) THEN ""
  ELSE Join(UserTexts(get(store, session_id).messages))

\* SessionManager.get_all_prompts
get_all_prompts(store, session_id) ==
  IF ~Has(store, session_id) THEN ""
  ELSE Join(UserPrompts(get(store, session_id).messages))

(***************************************************************************)
(* The sessions file.  SessionManager.save opens it with mode "w", which   *)
(* empties it, and json.dump then writes the whole dict; _load_sessions    *)
(* returns the dict a complete document holds, and {} when the file is     *)
(* missing or does not parse.  The dict holds only str and None under str  *)
(* keys, which json writes and reads back unchanged and in order.          *)
(***************************************************************************)
\* No file at Config.SESSIONS_FILE.
NoFile == [exists |-> FALSE, complete |-> FALSE, sessions |-> <<>>]

\* The file after json.dump wrote all of store and the file was closed.
json_dump(store) == [exists |-> TRUE, complete |-> TRUE, sessions |-> store]

\* The file after open(..., "w") emptied it and the write did not finish.
Truncated == [exists |-> TRUE, complete |-> FALSE, sessions |-> <<>>]

\* SessionManager._load_sessions
load_sessions(file) ==
  IF file.exists /\ file.complete THEN file.sessions ELSE <<>>

(***************************************************************************)
(* State.                                                                  *)
(***************************************************************************)
VARIABLES
  sessions,   \* session_manager.sessions
  disk,       \* the file at Config.SESSIONS_FILE
  pc,         \* per thread: where its handler stands
  loc,        \* per thread: the handler's local variables
  resp,       \* per thread: the response its last request returned
  nreq,       \* requests started so far
  nreads,     \* get_session requests answered so far
  observed,   \* the last value a read-only call returned to its caller
  before,     \* per thread: session_manager.sessions when its request began
  save_failed \* whether a save of this process has raised IOError

vars ==
  <<sessions, disk, pc, loc, resp, nreq, nreads, observed, before, save_failed>>

IdleLoc ==
  [op |-> None, session_id |-> None, prompt_new |-> None, prompt |-> None,
   image_path |-> None, bot_id |-> None]

\* op: the handler that answered; the other fields: the status code and the
\* JSON body.
NoResponse ==
  [op |-> None, status |-> 0, error |-> None, session_id |-> None,
   image_url |-> None, message_id |-> None, prompt |-> None, success |-> FALSE]

ErrorResponse(status, error) ==
  [NoResponse EXCEPT !.status = status, !.error = error]

\* The response as the handler op returns it.
From(op, response) == [response EXCEPT !.op = op]

NothingObserved == [op |-> None, arg |-> None, status |-> 0, value |-> None]

(***************************************************************************)
(* uuid.uuid4().hex[:8] returns any value of its range, one already in use *)
(* included: the source never compares a new id with the ids it has given  *)
(* out.  Ids are only ever compared for equality, so two values that occur *)
(* nowhere in the state are alike, and the draw of a value not in use      *)
(* takes the first of them.                                                *)
(***************************************************************************)
Uuid4(idSeq, inUse) ==
  LET all == {idSeq[i] : i \in 1..Len(idSeq)}
      free == {i \in 1..Len(idSeq) : idSeq[i] \notin inUse}
  IN  (all \cap inUse)
        \cup {idSeq[i] : i \in {j \in free : \A k \in free : j <= k}}

\* The message ids and the session ids a store holds.
MsgIdsOf(store) ==
  UNION {{store[k].messages[i].id : i \in 1..Len(store[k].messages)} :
           k \in 1..Len(store)}

SessionIdsOf(store) == {store[k].id : k \in 1..Len(store)}

\* The ids that occur anywhere in the state.
MsgIdsInUse ==
  MsgIdsOf(sessions) \cup MsgIdsOf(disk.sessions)
    \cup UNION {MsgIdsOf(before[t]) : t \in Threads}
    \cup {loc[t].bot_id : t \in Threads} \cup {resp[t].message_id : t \in Threads}
    \cup (IF observed.op = "get_session"
          THEN {observed.value.messages[i].id :
                  i \in 1..Len(observed.value.messages)}
          ELSE {})

SessionIdsInUse ==
  SessionIdsOf(sessions) \cup SessionIdsOf(disk.sessions)
    \cup UNION {SessionIdsOf(before[t]) : t \in Threads}
    \cup {loc[t].session_id : t \in Threads}
    \cup {resp[t].session_id : t \in Threads}
    \cup (IF observed.op = "get_session" THEN {observed.arg} ELSE {})

\* The store of a process started with no sessions file: _load_sessions
\* returns {}.
Init ==
  /\ disk = NoFile
  /\ sessions = load_sessions(disk)
  /\ pc = [t \in Threads |-> "idle"]
  /\ loc = [t \in Threads |-> IdleLoc]
  /\ resp = [t \in Threads |-> NoResponse]
  /\ nreq = 0
  /\ nreads = 0
  /\ observed = NothingObserved
  /\ before = [t \in Threads |-> <<>>]
  /\ save_failed = FALSE

\* A request is taken by an idle thread; the threads being alike, by the
\* lowest idle one.
CanStart(t) ==
  /\ pc[t] = "idle"
  /\ \A u \in Threads : u < t => pc[u] # "idle"
  /\ nreq < MaxRequests

\* A request that returns at once: the handler ran from top to return.
Return(t, response) ==
  /\ resp' = [resp EXCEPT ![t] = response]
  /\ pc' = [pc EXCEPT ![t] = "idle"]
  /\ loc' = [loc EXCEPT ![t] = IdleLoc]
  /\ before' = [before EXCEPT ![t] = <<>>]

(***************************************************************************)
(* POST /generate                                                          *)
(***************************************************************************)
\* prompt null: .strip() raises AttributeError, caught by the handler's
\* except.  prompt empty after strip: 400.
GenerateReject(t, raw) ==
  /\ CanStart(t)
  /\ raw = None \/ Strip(raw) = ""
  /\ nreq' = nreq + 1
  /\ Return(t, From("generate",
                    IF raw = None
                    THEN ErrorResponse(500, "Image generation failed")
                    ELSE ErrorResponse(400, "Prompt is empty")))
  /\ UNCHANGED <<sessions, disk, nreads, observed, save_failed>>

\* The effective prompt of a turn in an existing session.
EffectivePrompt(old_prompts, prompt_new) ==
  IF Truthy(old_prompts) THEN old_prompts \o Separator \o prompt_new
  ELSE prompt_new

\* Lines 221-245 up to the call of image_generator.generate, for a session
\* that exists.
GenerateExisting(t, raw, sid) ==
  /\ CanStart(t)
  /\ raw # None /\ Strip(raw) # ""
  /\ Truthy(sid) /\ Has(sessions, sid)
  /\ loc' = [loc EXCEPT ![t] =
       [IdleLoc EXCEPT !.op = "generate", !.session_id = sid,
          !.prompt_new = Strip(raw),
          !.prompt = EffectivePrompt(get_all_prompts(sessions, sid), Strip(raw))]]
  /\ pc' = [pc EXCEPT ![t] = "gen"]
  /\ before' = [before EXCEPT ![t] = sessions]
  /\ nreq' = nreq + 1
  /\ UNCHANGED <<sessions, disk, resp, nreads, observed, save_failed>>

\* The same lines when session_id is missing or names no session: create.
GenerateNew(t, raw, sid, new_id) ==
  /\ CanStart(t)
  /\ raw # None /\ Strip(raw) # ""
  /\ ~(Truthy(sid) /\ Has(sessions, sid))
  /\ sessions' = create(sessions, new_id, Strip(raw))
  /\ loc' = [loc EXCEPT ![t] =
       [IdleLoc EXCEPT !.op = "generate", !.session_id = new_id,
          !.prompt_new = Strip(raw), !.prompt = Strip(raw)]]
  /\ pc' = [pc EXCEPT ![t] = "gen"]
  /\ before' = [before EXCEPT ![t] = sessions]
  /\ nreq' = nreq + 1
  /\ UNCHANGED <<disk, resp, nreads, observed, save_failed>>

(***************************************************************************)
(* POST /regenerate, up to the call of image_generator.generate            *)
(***************************************************************************)
\* Lines 301-314 as they would be without the "if not prompt" of line 313.
RegenerateError_AnyPrompt(store, message_id) ==
  IF ~Truthy(message_id) THEN ErrorResponse(400, "Missing message_id")
  ELSE IF find_message_prompt(store, message_id) = Absent
       THEN ErrorResponse(404, "Message not found")
       ELSE NoResponse

\* Lines 301-314: the error the handler returns before it generates, or
\* NoResponse when it goes on.
RegenerateError(store, message_id) ==
  IF ~Truthy(message_id) THEN ErrorResponse(400, "Missing message_id")
  ELSE LET result == find_message_prompt(store, message_id) IN
       IF result = Absent THEN ErrorResponse(404, "Message not found")
       ELSE IF ~Truthy(result[2]) THEN ErrorResponse(400, "No valid prompt found")
       ELSE NoResponse

RegenerateReject(t, message_id) ==
  /\ CanStart(t)
  /\ RegenerateError(sessions, message_id) # NoResponse
  /\ Return(t, From("regenerate", RegenerateError(sessions, message_id)))
  /\ nreq' = nreq + 1
  /\ UNCHANGED <<sessions, disk, nreads, observed, save_failed>>

RegenerateStart(t, message_id) ==
  /\ CanStart(t)
  /\ RegenerateError(sessions, message_id) = NoResponse
  /\ LET result == find_message_prompt(sessions, message_id) IN
     loc' = [loc EXCEPT ![t] =
          [IdleLoc EXCEPT !.op = "regenerate", !.session_id = result[1],
             !.prompt = result[2]]]
  /\ pc' = [pc EXCEPT ![t] = "gen"]
  /\ before' = [before EXCEPT ![t] = sessions]
  /\ nreq' = nreq + 1
  /\ UNCHANGED <<sessions, disk, resp, nreads, observed, save_failed>>

(***************************************************************************)
(* image_generator.generate: the thread is inside the call while           *)
(* pc = "gen".  It returns a file name, or raises.                         *)
(***************************************************************************)
\* The call returns the name of the file it wrote.
GenerationReturns(t, image_path) ==
  /\ pc[t] = "gen"
  /\ loc' = [loc EXCEPT ![t].image_path = image_path]
  /\ pc' = [pc EXCEPT ![t] = "add_user"]
  /\ UNCHANGED <<sessions, disk, resp, nreq, nreads, observed, before, save_failed>>

\* The failing call as it would be if the handlers appended the user message
\* before they generate.
GenerationRaises_AfterUserMessage(t) ==
  /\ pc[t] = "gen"
  /\ sessions' = add_message(sessions, loc[t].session_id,
                             UserMsg("m1", loc[t].prompt))
  /\ Return(t, From(loc[t].op, ErrorResponse(500, "Image generation failed")))
  /\ UNCHANGED <<disk, nreq, nreads, observed, save_failed>>

\* The call raises: both handlers answer 500.
GenerationRaises(t) ==
  /\ pc[t] = "gen"
  /\ Return(t, From(loc[t].op, ErrorResponse(500, "Image generation failed")))
  /\ UNCHANGED <<sessions, disk, nreq, nreads, observed, save_failed>>

(***************************************************************************)
(* The three add_message calls and the save of generate_image and          *)
(* regenerate.  Each message id is a value of uuid4, drawn where the       *)
(* message is built: the draws of lines 249-251 depend on nothing another  *)
(* thread does.                                                            *)
(***************************************************************************)
\* The text of the user message as it would be if regenerate, which has no
\* prompt_new, appended no prompt.
UserText_PromptNew(l) == l.prompt_new

\* The text of the user message: prompt_new (generate), prompt (regenerate).
UserText(l) == IF l.op = "generate" THEN l.prompt_new ELSE l.prompt

\* The text of the bot message that carries the image.
BotText(l) == IF l.op = "generate" THEN Caption(l.prompt) ELSE l.prompt

AddUserMessage(t, user_id) ==
  /\ pc[t] = "add_user"
  /\ sessions' = add_message(sessions, loc[t].session_id,
                             UserMsg(user_id, UserText(loc[t])))
  /\ pc' = [pc EXCEPT ![t] = "add_bot"]
  /\ UNCHANGED <<disk, loc, resp, nreq, nreads, observed, before, save_failed>>

\* bot_id is kept: the response returns it as message_id.
AddBotMessage(t, bot_id) ==
  /\ pc[t] = "add_bot"
  /\ sessions' = add_message(sessions, loc[t].session_id,
                             BotImageMsg(bot_id, loc[t].image_path,
                                         BotText(loc[t])))
  /\ loc' = [loc EXCEPT ![t].bot_id = bot_id]
  /\ pc' = [pc EXCEPT ![t] = "add_boom"]
  /\ UNCHANGED <<disk, resp, nreq, nreads, observed, before, save_failed>>

AddBoomMessage(t, boom_id) ==
  /\ pc[t] = "add_boom"
  /\ sessions' = add_message(sessions, loc[t].session_id, BoomMsg(boom_id))
  /\ pc' = [pc EXCEPT ![t] = "save"]
  /\ UNCHANGED <<disk, loc, resp, nreq, nreads, observed, before, save_failed>>

\* The success response of the handler that reached its save.
SuccessResponse(l) ==
  IF l.op = "update_status"
  THEN [NoResponse EXCEPT !.op = l.op, !.status = 200, !.success = TRUE]
  ELSE [NoResponse EXCEPT !.op = l.op, !.status = 200, !.session_id = l.session_id,
          !.image_url = ImageUrl(l.image_path), !.message_id = l.bot_id,
          !.prompt = IF l.op = "regenerate" THEN l.prompt ELSE None]

\* SessionManager.save writes the whole dict, as it is when the dump is
\* taken; the handler then answers.
SaveWrites(t) ==
  /\ pc[t] = "save"
  /\ disk' = json_dump(sessions)
  /\ Return(t, SuccessResponse(loc[t]))
  /\ UNCHANGED <<sessions, nreq, nreads, observed, save_failed>>

\* open() raises IOError (no permission, no directory): the file is not
\* touched; save prints and returns; the handler then answers.
SaveFails(t) ==
  /\ pc[t] = "save"
  /\ save_failed' = TRUE
  /\ Return(t, SuccessResponse(loc[t]))
  /\ UNCHANGED <<sessions, disk, nreq, nreads, observed>>

\* open() succeeds and empties the file, then a write, or the flush when the
\* with block closes the file, raises IOError (disk full, quota): save
\* prints and returns; the handler then answers.
SaveTruncates(t) ==
  /\ pc[t] = "save"
  /\ disk' = Truncated
  /\ save_failed' = TRUE
  /\ Return(t, SuccessResponse(loc[t]))
  /\ UNCHANGED <<sessions, nreq, nreads, observed>>

(***************************************************************************)
(* POST /update_status                                                     *)
(***************************************************************************)
\* update_status as it would be if it saved also when no message matched.
UpdateStatusReject_Saves(t, message_id, status) ==
  /\ CanStart(t)
  /\ \/ ~Truthy(message_id)
     \/ ~Truthy(status)
     \/ ~update_message_status_ok(sessions, message_id)
  /\ Return(t, From("update_status",
                    IF ~Truthy(message_id) \/ ~Truthy(status)
                    THEN ErrorResponse(400, "Missing message_id or status")
                    ELSE ErrorResponse(404, "Message not found")))
  /\ nreq' = nreq + 1
  /\ disk' = json_dump(sessions)
  /\ UNCHANGED <<sessions, nreads, observed, save_failed>>

\* Lines 364-369 and 376-377: a field is missing, or no message matched.
UpdateStatusReject(t, message_id, status) ==
  /\ CanStart(t)
  /\ \/ ~Truthy(message_id)
     \/ ~Truthy(status)
     \/ ~update_message_status_ok(sessions, message_id)
  /\ Return(t, From("update_status",
                    IF ~Truthy(message_id) \/ ~Truthy(status)
                    THEN ErrorResponse(400, "Missing message_id or status")
                    ELSE ErrorResponse(404, "Message not found")))
  /\ nreq' = nreq + 1
  /\ UNCHANGED <<sessions, disk, nreads, observed, save_failed>>

UpdateStatus(t, message_id, status) ==
  /\ CanStart(t)
  /\ Truthy(message_id) /\ Truthy(status)
  /\ update_message_status_ok(sessions, message_id)
  /\ sessions' = update_message_status(sessions, message_id, status)
  /\ loc' = [loc EXCEPT ![t] = [IdleLoc EXCEPT !.op = "update_status"]]
  /\ pc' = [pc EXCEPT ![t] = "save"]
  /\ before' = [before EXCEPT ![t] = sessions]
  /\ nreq' = nreq + 1
  /\ UNCHANGED <<disk, resp, nreads, observed, save_failed>>

(***************************************************************************)
(* GET /session/<session_id>                                               *)
(***************************************************************************)
GetSession(session_id) ==
  /\ nreads < MaxReads
  /\ nreads' = nreads + 1
  /\ observed' =
       IF Has(sessions, session_id)
       THEN [op |-> "get_session", arg |-> session_id, status |-> 200,
             value |-> [title |-> get(sessions, session_id).title,
                        messages |-> get(sessions, session_id).messages]]
       ELSE [op |-> "get_session", arg |-> session_id, status |-> 404,
             value |-> [messages |-> <<>>]]
  /\ UNCHANGED <<sessions, disk, pc, loc, resp, nreq, before, save_failed>>

(***************************************************************************)
(* The server.  Handlers(T): a thread of T takes any request, or goes on   *)
(* with the one it is handling.  With repeats false, only the behaviours   *)
(* in which uuid4 happens never to return a value in use.                  *)
(***************************************************************************)
Draw(idSeq, inUse, repeats) ==
  IF repeats THEN Uuid4(idSeq, inUse) ELSE Uuid4(idSeq, inUse) \ inUse

Handlers(T, repeats) ==
  \/ \E t \in T, raw \in RawPrompts : GenerateReject(t, raw)
  \/ \E t \in T, raw \in RawPrompts, sid \in SessionIds :
       GenerateExisting(t, raw, sid)
  \/ \E t \in T, raw \in RawPrompts, sid \in SessionIds \cup {None},
        new_id \in Draw(SessionIdSeq, SessionIdsInUse, repeats) :
       GenerateNew(t, raw, sid, new_id)
  \/ \E t \in T, mid \in MsgIds \cup {None} : RegenerateReject(t, mid)
  \/ \E t \in T, mid \in MsgIds : RegenerateStart(t, mid)
  \/ \E t \in T, image_path \in ImagePaths : GenerationReturns(t, image_path)
  \/ \E t \in T : GenerationRaises(t)
  \/ \E t \in T, user_id \in Draw(MsgIdSeq, MsgIdsInUse, repeats) : AddUserMessage(t, user_id)
  \/ \E t \in T, bot_id \in Draw(MsgIdSeq, MsgIdsInUse, repeats) : AddBotMessage(t, bot_id)
  \/ \E t \in T, boom_id \in Draw(MsgIdSeq, MsgIdsInUse, repeats) : AddBoomMessage(t, boom_id)
  \/ \E t \in T : SaveWrites(t)
  \/ \E t \in T : SaveFails(t)
  \/ \E t \in T : SaveTruncates(t)
  \/ \E t \in T, mid \in MsgIds \cup {None}, status \in Statuses :
       UpdateStatusReject(t, mid, status)
  \/ \E t \in T, mid \in MsgIds, status \in Statuses :
       UpdateStatus(t, mid, status)

\* Flask serves each request on a thread of its own: the handlers of all
\* threads interleave, statement by statement.
Next == Handlers(Threads, TRUE)

Spec == Init /\ [][Next]_vars

\* The behaviours of Spec in which no id is ever drawn twice.
NoRepeatNext == Handlers(Threads, FALSE)

NoRepeatSpec == Init /\ [][NoRepeatNext]_vars

\* The same server when each request arrives after the one before it was
\* answered, and a client polls GET /session meanwhile.
SeqNext ==
  \/ Handlers({1}, TRUE)
  \/ \E sid \in SessionIds : GetSession(sid)

SeqSpec == Init /\ [][SeqNext]_vars

(***************************************************************************)
(* The lookups of SessionManager on a store loaded from a sessions file.   *)
(* _load_sessions returns whatever document the file holds, so the store   *)
(* is any one of a bounded family: user messages with empty or null text,  *)
(* bot messages anywhere, the same message id twice.                       *)
(***************************************************************************)
SeqsUpTo(S, n) == UNION {[1..m -> S] : m \in 0..n}

\* One session, messages that differ in sender and text.
LoadedPromptStores ==
  LET msgs == {Msg("m1", sender, text, None, None) :
                 sender \in {"user", "bot"}, text \in {None, "", "a", "b"}}
  IN  {<<>>}
        \cup {<<[id |-> "s1", title |-> "a", messages |-> m]>> :
                m \in SeqsUpTo(msgs, LoadMaxLen)}

\* Two sessions, messages that differ in id, sender and text; the second
\* session holds up to two of them.
LoadedIdStores ==
  LET msgs == {Msg(id, sender, text, None, None) :
                 id \in {"m1", "m2"}, sender \in {"user", "bot"},
                 text \in {"a", "b"}}
  IN  {<<[id |-> "s1", title |-> "a", messages |-> m1],
         [id |-> "s2", title |-> "b", messages |-> m2]>> :
         m1 \in SeqsUpTo(msgs, LoadMaxLen2), m2 \in SeqsUpTo(msgs, 2)}

LoadInit ==
  /\ sessions \in LoadedPromptStores \cup LoadedIdStores
  /\ disk = json_dump(sessions)
  /\ pc = [t \in Threads |-> "idle"]
  /\ loc = [t \in Threads |-> IdleLoc]
  /\ resp = [t \in Threads |-> NoResponse]
  /\ nreq = 0
  /\ nreads = 0
  /\ observed = NothingObserved
  /\ before = [t \in Threads |-> <<>>]
  /\ save_failed = FALSE

CallFindMessagePrompt(message_id) ==
  /\ observed' = [op |-> "find_message_prompt", arg |-> message_id, status |-> 0,
                  value |-> find_message_prompt(sessions, message_id)]
  /\ UNCHANGED <<sessions, disk, pc, loc, resp, nreq, nreads, before, save_failed>>

CallGetAllPrompts(session_id) ==
  /\ observed' = [op |-> "get_all_prompts", arg |-> session_id, status |-> 0,
                  value |-> get_all_prompts(sessions, session_id)]
  /\ UNCHANGED <<sessions, disk, pc, loc, resp, nreq, nreads, before, save_failed>>

LoadNext ==
  \/ \E mid \in {"m1", "m2", "m3"} : CallFindMessagePrompt(mid)
  \/ \E sid \in SessionIds : CallGetAllPrompts(sid)

LoadSpec == LoadInit /\ [][LoadNext]_vars

(***************************************************************************)
(* SessionManager.add_message called on a loaded store with any session    *)
(* id, one the store holds or not.                                         *)
(***************************************************************************)
CallAddMessage(session_id, message) ==
  /\ nreq < MaxRequests
  /\ sessions' = add_message(sessions, session_id, message)
  /\ before' = [before EXCEPT ![1] = sessions]
  /\ observed' = [op |-> "add_message", arg |-> session_id, status |-> 0,
                  value |-> None]
  /\ nreq' = nreq + 1
  /\ UNCHANGED <<disk, pc, loc, resp, nreads, save_failed>>

ManagerNext ==
  \E sid \in SessionIds, message \in {UserMsg("m3", "a"), BoomMsg("m3")} :
    CallAddMessage(sid, message)

ManagerSpec == LoadInit /\ [][ManagerNext]_vars

(***************************************************************************)
(* The server started on a sessions file it finds: the file an earlier run *)
(* left after one generate request, or a file of one session with up to    *)
(* RestartMaxLen messages or of two sessions with up to RestartMaxLen2     *)
(* each, messages with or without a text and with ids that may repeat.     *)
(* Requests then arrive one after the other, and uuid4 happens never to    *)
(* return a value in use.                                                  *)
(***************************************************************************)
\* What one generate request with prompt "a" leaves in a new session.
LoadedRun ==
  <<UserMsg("m1", "a"), BotImageMsg("m2", "generated/f1.png", Caption("a")),
    BoomMsg("m3")>>

RestartStores ==
  LET msgs == {Msg(id, sender, text, None, None) :
                 id \in {"m1", "m2"}, sender \in {"user", "bot"},
                 text \in {None, "", "a"}}
  IN  {<<[id |-> "s1", title |-> "a", messages |-> m]>> :
         m \in {LoadedRun} \cup SeqsUpTo(msgs, RestartMaxLen)}
        \cup {<<[id |-> "s1", title |-> "a", messages |-> m1],
                [id |-> "s2", title |-> "a", messages |-> m2]>> :
                m1 \in SeqsUpTo(msgs, RestartMaxLen2),
                m2 \in SeqsUpTo(msgs, RestartMaxLen2)}

RestartInit ==
  /\ disk \in {json_dump(store) : store \in RestartStores}
  /\ sessions = load_sessions(disk)
  /\ pc = [t \in Threads |-> "idle"]
  /\ loc = [t \in Threads |-> IdleLoc]
  /\ resp = [t \in Threads |-> NoResponse]
  /\ nreq = 0
  /\ nreads = 0
  /\ observed = NothingObserved
  /\ before = [t \in Threads |-> <<>>]
  /\ save_failed = FALSE

RestartNext == Handlers({1}, FALSE)

RestartSpec == RestartInit /\ [][RestartNext]_vars

(***************************************************************************)
(* Properties.                                                             *)
(***************************************************************************)
IsPrefix(a, b) == Len(a) <= Len(b) /\ SubSeq(b, 1, Len(a)) = a
EndsWith(text, tail) ==
  Len(tail) <= Len(text) /\ SubSeq(text, Len(text) - Len(tail) + 1, Len(text)) = tail
IdsOf(msgs) == [i \in 1..Len(msgs) |-> msgs[i].id]

\* The prompt history of a message list, told from its first message on:
\* a message adds its text, after ". " when something stands before it, iff
\* its sender is user and its text is neither missing nor empty.
RECURSIVE HistoryUpTo(_, _)
HistoryUpTo(msgs, n) ==
  IF n = 0 THEN ""
  ELSE LET rest == HistoryUpTo(msgs, n - 1) IN
       IF msgs[n].sender = "user" /\ msgs[n].text \notin {None, ""}
       THEN (IF rest = "" THEN msgs[n].text ELSE rest \o ". " \o msgs[n].text)
       ELSE rest

\* C1: at most one thread is inside image_generator.generate at any time.
C1_OneGenerationInFlight ==
  Cardinality({t \in Threads : pc[t] = "gen"}) <= 1

\* C2: when the generation call of a generate request raises, the request
\* answers 500 and the store is what it was when the request began, whether
\* session_id named a session or not.
C2_FailedGenerateLeavesStore ==
  [][\A t \in Threads :
       (pc[t] = "gen" /\ loc[t].op = "generate" /\ pc'[t] = "idle")
         => (resp'[t].status = 500 /\ sessions' = before[t])]_vars

\* C3: when the generation call of a generate request raises, every session
\* that existed when the request began is still there with as many messages
\* as it had.
C3_FailedGenerateKeepsCounts ==
  [][\A t \in Threads :
       (pc[t] = "gen" /\ loc[t].op = "generate" /\ pc'[t] = "idle")
         => \A k \in 1..Len(before[t]) :
              /\ Has(sessions', before[t][k].id)
              /\ Len(get(sessions', before[t][k].id).messages)
                   = Len(before[t][k].messages)]_vars

\* C4: every bot message that carries an image stands right after a user
\* message whose text is the raw prompt the image was asked with: the bot's
\* text is that prompt (regenerate), or the caption of an effective prompt
\* that is or ends with that prompt (generate).
C4_ImageFollowsItsPrompt ==
  \A k \in 1..Len(sessions) :
    LET msgs == sessions[k].messages IN
    \A i \in 1..Len(msgs) :
      msgs[i].image_url # None
        => /\ i > 1
           /\ msgs[i - 1].sender = "user"
           /\ \/ msgs[i].text = msgs[i - 1].text
              \/ msgs[i].text = Caption(msgs[i - 1].text)
              \/ /\ IsPrefix(CaptionPrefix, msgs[i].text)
                 /\ EndsWith(msgs[i].text, Separator \o msgs[i - 1].text)

\* C5: when a generate request appends its bot message, the effective prompt
\* it generated from, which the caption embeds, is the ". "-join of the
\* non-empty texts of all user messages standing before that bot message.
C5_CumulativeContext ==
  [][\A t \in Threads :
       (pc[t] = "add_bot" /\ pc'[t] = "add_boom" /\ loc[t].op = "generate"
          /\ Has(sessions', loc[t].session_id))
         => LET msgs == get(sessions', loc[t].session_id).messages IN
            /\ msgs[Len(msgs)].text = Caption(loc[t].prompt)
            /\ loc[t].prompt = HistoryUpTo(msgs, Len(msgs) - 1)]_vars

\* The positions <<session, message>> of the messages with id message_id,
\* and the first of a set of positions in store order.
Matches(store, message_id) ==
  UNION {{<<k, i>> : i \in {j \in 1..Len(store[k].messages) :
                              store[k].messages[j].id = message_id}} :
           k \in 1..Len(store)}

FirstOf(P) ==
  CHOOSE p \in P : \A q \in P : p[1] < q[1] \/ (p[1] = q[1] /\ p[2] <= q[2])

\* C6: find_message_prompt returns absent when no message has the id;
\* otherwise, for the first match, at index i of session s, it returns
\* (s, text of message i-1) when i > 0 and message i-1 is a user's, and
\* (s, the match's own text) in every other case.
C6_FindMessagePrompt ==
  observed.op = "find_message_prompt"
    => LET P == Matches(sessions, observed.arg) IN
       IF P = {} THEN observed.value = Absent
       ELSE LET s == sessions[FirstOf(P)[1]]
                i == FirstOf(P)[2]
            IN  observed.value =
                  <<s.id, IF i > 1 /\ s.messages[i - 1].sender = "user"
                          THEN s.messages[i - 1].text
                          ELSE s.messages[i].text>>

\* A lookup of a bot message that stands right after a user message with
\* another text has returned the user's text.
C6_Witness ==
  /\ observed.op = "find_message_prompt"
  /\ LET P == Matches(sessions, observed.arg) IN
     /\ P # {}
     /\ LET s == sessions[FirstOf(P)[1]]
            i == FirstOf(P)[2]
        IN  /\ i > 1
            /\ s.messages[i].sender = "bot"
            /\ s.messages[i - 1].sender = "user"
            /\ s.messages[i - 1].text # s.messages[i].text
            /\ observed.value = <<s.id, s.messages[i - 1].text>>

\* The session of the spec's example: user "a", a bot message, user "",
\* user "b".
ExampleMessages ==
  <<Msg("m1", "user", "a", None, None), Msg("m1", "bot", "b", None, None),
    Msg("m1", "user", "", None, None), Msg("m1", "user", "b", None, None)>>

\* C7: get_all_prompts of a session is the texts of exactly its messages with
\* sender user and a non-empty text, in order, joined by ". "; the example
\* gives "a. b"; an empty or absent session gives "".
C7_GetAllPrompts ==
  observed.op = "get_all_prompts"
    => /\ Has(sessions, observed.arg)
            => observed.value =
                 HistoryUpTo(get(sessions, observed.arg).messages,
                             Len(get(sessions, observed.arg).messages))
       /\ (Has(sessions, observed.arg)
             /\ get(sessions, observed.arg).messages = ExampleMessages)
            => observed.value = "a. b"
       /\ (~Has(sessions, observed.arg)
             \/ get(sessions, observed.arg).messages = <<>>)
            => observed.value = ""

\* get_all_prompts has answered for the session of the example.
C7_Witness ==
  /\ observed.op = "get_all_prompts"
  /\ Has(sessions, observed.arg)
  /\ get(sessions, observed.arg).messages = ExampleMessages
  /\ observed.value = "a. b"

\* C8: in every step each session stays in the store and the ids of its
\* messages, in order, are a prefix of what they are after the step.
C8_AppendOnly ==
  [][\A k \in 1..Len(sessions) :
       /\ Has(sessions', sessions[k].id)
       /\ IsPrefix(IdsOf(sessions[k].messages),
                   IdsOf(get(sessions', sessions[k].id).messages))]_vars

\* C9: no two messages of the store, in one session or in two, have the same
\* id.
C9_MessageIdsUnique ==
  \A k1 \in 1..Len(sessions), k2 \in 1..Len(sessions) :
    \A i1 \in 1..Len(sessions[k1].messages), i2 \in 1..Len(sessions[k2].messages) :
      sessions[k1].messages[i1].id = sessions[k2].messages[i2].id
        => (k1 = k2 /\ i1 = i2)

\* Whole runs: user message, bot message with the image, closing message,
\* any number of times.
WholeRuns(msgs) ==
  /\ Len(msgs) % 3 = 0
  /\ \A j \in 0..(Len(msgs) \div 3 - 1) :
       /\ msgs[3 * j + 1].sender = "user"
       /\ msgs[3 * j + 2].sender = "bot" /\ msgs[3 * j + 2].image_url # None
       /\ msgs[3 * j + 3].sender = "bot" /\ msgs[3 * j + 3].image_url = None
       /\ msgs[3 * j + 3].text = BoomText

\* C10: what GET /session returns holds, of each request's three messages,
\* all or none.
C10_ReaderSeesWholeRuns ==
  (observed.op = "get_session" /\ observed.status = 200)
    => WholeRuns(observed.value.messages)

\* C11: the sessions file holds, in every session, only whole runs (user
\* message, bot message with the image, closing message): no save writes a
\* request's messages before all three were appended, also when one thread
\* saves while another stands between its appends.
C11_DiskHoldsWholeRuns ==
  \A k \in 1..Len(disk.sessions) : WholeRuns(disk.sessions[k].messages)

\* C12: whenever no request is being handled and no save has failed, the
\* sessions file holds the in-memory store: loading it gives a store with the
\* same get_all() and the same get() for every session id.
C12_DiskEqualsStore ==
  ((\A t \in Threads : pc[t] = "idle") /\ ~save_failed)
    => /\ load_sessions(disk) = sessions
       /\ get_all(load_sessions(disk)) = get_all(sessions)
       /\ \A sid \in SessionIds :
            get(load_sessions(disk), sid) = get(sessions, sid)

\* The title the spec gives a session founded with prompt p.
FoundingTitle(p) ==
  IF Len(p) > TitleLimit THEN SubSeq(p, 1, TitleLimit) \o "..." ELSE p

\* C13: a session gets its title when a create call makes it, and the title
\* is that call's prompt, cut to 30 characters with "..." after it exactly
\* when the prompt is longer; every other step (an append, a status update,
\* a generate into the session, a regenerate) leaves every title as it is.
C13_TitleFromFoundingPrompt ==
  [][\A k \in 1..Len(sessions') :
       LET s == sessions'[k] IN
       \/ Has(sessions, s.id) /\ get(sessions, s.id).title = s.title
       \/ \E t \in Threads :
            /\ pc[t] = "idle" /\ pc'[t] = "gen" /\ loc'[t].op = "generate"
            /\ loc'[t].session_id = s.id
            /\ s.messages = <<>>
            /\ s.title = FoundingTitle(loc'[t].prompt_new)]_vars

\* A session founded with the long prompt carries the cut title after its
\* three messages were appended and one of them was given a status.
C13_Witness ==
  \E k \in 1..Len(sessions) :
    /\ sessions[k].title = SubSeq(LongPrompt, 1, TitleLimit) \o "..."
    /\ Len(sessions[k].messages) >= 3
    /\ sessions[k].messages[1].text = LongPrompt
    /\ \E i \in 1..Len(sessions[k].messages) :
         sessions[k].messages[i].status = "like"

\* C14: an update_status request whose message_id matches no message:
\* update_message_status returns false and leaves the store as it is, the
\* request answers 404 "Message not found" at once, without a save, and the
\* in-memory store and the sessions file are what they were.
C14_UnknownIdChangesNothing ==
  [][\A t \in Threads, mid \in MsgIds, status \in Statuses \ {None} :
       (/\ Matches(sessions, mid) = {}
        /\ UpdateStatusReject(t, mid, status) \/ UpdateStatus(t, mid, status))
         => /\ ~update_message_status_ok(sessions, mid)
            /\ update_message_status(sessions, mid, status) = sessions
            /\ resp'[t] = From("update_status",
                                ErrorResponse(404, "Message not found"))
            /\ pc'[t] = "idle"
            /\ sessions' = sessions
            /\ disk' = disk]_vars

\* update_status has answered 404 on a store that holds messages and differs
\* from the sessions file.
C14_Witness ==
  \E t \in Threads :
    /\ resp[t].op = "update_status" /\ resp[t].status = 404
    /\ MsgIdsOf(sessions) # {}
    /\ load_sessions(disk) # sessions

\* A string of whitespace only: what strip() leaves nothing of.
OnlyWhitespace(raw) == \A i \in 1..Len(raw) : SubSeq(raw, i, i) \in Whitespace

\* The prompt regenerate resolves message_id to: the text of the message
\* before the first match when that is a user's, else the match's own text;
\* None when nothing matches.
ResolvedPrompt(store, message_id) ==
  LET P == Matches(store, message_id) IN
  IF P = {} THEN None
  ELSE LET s == store[FirstOf(P)[1]]
           i == FirstOf(P)[2]
       IN  IF i > 1 /\ s.messages[i - 1].sender = "user"
           THEN s.messages[i - 1].text ELSE s.messages[i].text

\* Any step a handler takes first on the given request body.
GenerateStep(t, raw, sid) ==
  \/ GenerateReject(t, raw)
  \/ GenerateExisting(t, raw, sid)
  \/ \E new_id \in SessionIds : GenerateNew(t, raw, sid, new_id)

RegenerateStep(t, mid) == RegenerateReject(t, mid) \/ RegenerateStart(t, mid)

UpdateStatusStep(t, mid, status) ==
  UpdateStatusReject(t, mid, status) \/ UpdateStatus(t, mid, status)

\* C15: a generate request whose prompt is empty after strip, a regenerate
\* request whose message_id is missing, matches no message or resolves to a
\* missing or empty prompt, and an update_status request with a field missing
\* are each answered 400 or 404 at once: the thread does not enter
\* image_generator.generate, and the in-memory store and the sessions file
\* stay as they are.
C15_ClientErrorsChangeNothing ==
  [][\A t \in Threads :
       LET NoEffect(op) ==
             /\ resp'[t].op = op /\ resp'[t].status \in {400, 404}
             /\ pc'[t] = "idle"
             /\ sessions' = sessions
             /\ disk' = disk
       IN
       /\ \A raw \in RawPrompts \ {None}, sid \in SessionIds \cup {None} :
            (OnlyWhitespace(raw) /\ GenerateStep(t, raw, sid))
              => NoEffect("generate")
       /\ \A mid \in MsgIds \cup {None} :
            (/\ \/ mid = None
                \/ Matches(sessions, mid) = {}
                \/ ResolvedPrompt(sessions, mid) \in {None, ""}
             /\ RegenerateStep(t, mid))
              => NoEffect("regenerate")
       /\ \A mid \in MsgIds \cup {None}, status \in Statuses :
            ((mid = None \/ status = None) /\ UpdateStatusStep(t, mid, status))
              => NoEffect("update_status")]_vars

\* regenerate has answered 400 for a message that exists and resolves to an
\* empty prompt.
C15_Witness ==
  \E t \in Threads :
    /\ resp[t].op = "regenerate" /\ resp[t].status = 400
    /\ resp[t].error = "No valid prompt found"
    /\ MsgIdsOf(sessions) # {}

\* C16: a regenerate request whose generation call raises: from the step that
\* takes the request to the step that answers it the in-memory store and the
\* sessions file stay what they were when the request came (nothing is
\* appended, nothing is saved), and the answer is 500.
C16_FailedRegenerateLeavesState ==
  [][\A t \in Threads :
       /\ (pc[t] = "idle" /\ pc'[t] = "gen" /\ loc'[t].op = "regenerate")
            => (sessions' = sessions /\ disk' = disk /\ before'[t] = sessions)
       /\ (pc[t] = "gen" /\ loc[t].op = "regenerate")
            => /\ sessions' = before[t]
               /\ disk' = disk
               /\ pc'[t] = "idle"
                    => resp'[t] = From("regenerate",
                                       ErrorResponse(500, "Image generation failed"))]_vars

\* regenerate has answered 500 and the session of the message still holds
\* the three messages it held.
C16_Witness ==
  \E t \in Threads :
    /\ resp[t].op = "regenerate" /\ resp[t].status = 500
    /\ \E k \in 1..Len(sessions) : Len(sessions[k].messages) = 3

\* C17: when the save of a generate, regenerate or update_status request
\* fails (the file is not the written store afterwards), the request still
\* answers 200, the in-memory store keeps what the request did to it, and
\* the sessions file holds what it held before the save.
C17_FailedSaveKeepsFile ==
  [][\A t \in Threads :
       (pc[t] = "save" /\ pc'[t] = "idle" /\ disk' # json_dump(sessions))
         => /\ resp'[t] = SuccessResponse(loc[t])
            /\ resp'[t].status = 200
            /\ sessions' = sessions
            /\ disk' = disk]_vars

\* C18: add_message with a session id the store does not hold returns
\* without an error and leaves the store as it is: no session is made, and
\* every session keeps its title and its message list.
C18_AppendToMissingSession ==
  [][(/\ observed'.op = "add_message" /\ nreq' = nreq + 1
      /\ \A k \in 1..Len(sessions) : sessions[k].id # observed'.arg)
       => /\ Len(sessions') = Len(sessions)
          /\ \A k \in 1..Len(sessions) :
               /\ sessions'[k].id = sessions[k].id
               /\ sessions'[k].title = sessions[k].title
               /\ sessions'[k].messages = sessions[k].messages]_vars

\* add_message has returned for a session id that a store with another
\* session does not hold.
C18_Witness ==
  /\ observed.op = "add_message"
  /\ sessions # <<>>
  /\ \A k \in 1..Len(sessions) : sessions[k].id # observed.arg
  /\ before[1] = sessions

\* A message without its status.
Unmarked(m) == [m EXCEPT !.status = None]

\* C19: an update_status request whose message_id matches: update_message_status
\* returns true and sets the status of the first match in store order; every
\* session keeps its id, its title and the number and order of its messages,
\* every message its id, sender, text and image_url, and every other message
\* its status.  In any step at all, a message that is still in its session
\* is what it was, but for the status a status update gave it.
C19_OnlyStatusChanges ==
  [][/\ \A t \in Threads, mid \in MsgIds, status \in Statuses \ {None} :
          (Matches(sessions, mid) # {} /\ UpdateStatusStep(t, mid, status))
            => /\ update_message_status_ok(sessions, mid)
               /\ pc'[t] = "save" /\ loc'[t].op = "update_status"
               /\ Len(sessions') = Len(sessions)
               /\ \A k \in 1..Len(sessions) :
                    /\ sessions'[k].id = sessions[k].id
                    /\ sessions'[k].title = sessions[k].title
                    /\ Len(sessions'[k].messages) = Len(sessions[k].messages)
                    /\ \A i \in 1..Len(sessions[k].messages) :
                         /\ Unmarked(sessions'[k].messages[i])
                              = Unmarked(sessions[k].messages[i])
                         /\ sessions'[k].messages[i].status =
                              IF <<k, i>> = FirstOf(Matches(sessions, mid))
                              THEN status
                              ELSE sessions[k].messages[i].status
     /\ \A k \in 1..Len(sessions) :
          Has(sessions', sessions[k].id)
            => LET after == get(sessions', sessions[k].id).messages IN
               \A i \in 1..Len(sessions[k].messages) :
                 i <= Len(after)
                   => /\ Unmarked(after[i]) = Unmarked(sessions[k].messages[i])
                      /\ after[i].status # sessions[k].messages[i].status
                           => \E t \in Threads :
                                /\ pc[t] = "idle" /\ pc'[t] = "save"
                                /\ loc'[t].op = "update_status"]_vars

\* update_status has answered success on a store where a message of the
\* first session and one of the second carry the same id: the first has the
\* status, the second has none.
C19_Witness ==
  /\ \E t \in Threads : resp[t].op = "update_status" /\ resp[t].status = 200
  /\ Len(sessions) >= 2
  /\ \E i \in 1..Len(sessions[1].messages), j \in 1..Len(sessions[2].messages) :
       /\ sessions[1].messages[i].id = sessions[2].messages[j].id
       /\ sessions[1].messages[i].status = "like"
       /\ sessions[2].messages[j].status = None

\* The prompt history of a whole message list, and how often p is one of the
\* prompts it joins.
History(msgs) == HistoryUpTo(msgs, Len(msgs))

TimesPrompted(msgs, p) ==
  Cardinality({i \in 1..Len(msgs) :
                 msgs[i].sender = "user" /\ msgs[i].text \notin {None, ""}
                   /\ msgs[i].text = p})

\* The step in which thread t, handling a regenerate request, appends its
\* user message.
RegenerateAppendsUser(t) ==
  pc[t] = "add_user" /\ pc'[t] = "add_bot" /\ loc[t].op = "regenerate"

====
